---- MODULE Spec2Model ----
(***************************************************************************)
(* TLS extensions container and extension carriers of Botan's TLS 1.2      *)
(* handshake layer (src/src/lib/tls/tls_extensions.cpp).                   *)
(*                                                                         *)
(* A byte is a number in 0..255, a byte string a sequence of bytes.  A     *)
(* reader is a buffer together with an offset; every reader primitive and  *)
(* every carrier constructor returns a record                              *)
(*     [err |-> the exception thrown or NoError,                           *)
(*      off |-> the reader's offset afterwards,                            *)
(*      val |-> the value read / the extension built]                      *)
(* An extension is a record [type, data, names]: its 16-bit code, its      *)
(* numeric content (host name bytes, group codes, ...) and, for ALPN, its  *)
(* list of protocol names.                                                 *)
(***************************************************************************)
EXTENDS Integers, Sequences, FiniteSets, TLC

VARIABLES
    m_extensions,   \* Extensions::m_extensions, in insertion order
    reader,         \* the reader last handed to a parser, and what it was over
    last            \* what the last operation was given and what it returned

vars == <<m_extensions, reader, last>>

(***************************************************************************)
(* Bounds of the model.                                                    *)
(***************************************************************************)
\* most records in a block offered to the container operations
MaxRecords == 2
\* longest raw payload handed to a single carrier constructor
MaxRaw == 6
\* most records in a block of the round-trip specification
MaxWire == 2

(***************************************************************************)
(* Exceptions.                                                             *)
(***************************************************************************)
NoError == "none"
Decoding_Error == "Decoding_Error"
TLS_Exception_DECODE_ERROR == "TLS_Exception(DECODE_ERROR)"
TLS_Exception_INTERNAL_ERROR == "TLS_Exception(INTERNAL_ERROR)"
Invalid_Argument == "Invalid_Argument"
Invalid_State == "Invalid_State"
\* what a failed BOTAN_ASSERT throws
Internal_Error == "Internal_Error"

\* the error kinds that reach the peer as a decode_error alert
DecodeErrors == {Decoding_Error, TLS_Exception_DECODE_ERROR}

CLIENT == "CLIENT"
SERVER == "SERVER"
Connection_Side == {CLIENT, SERVER}

(***************************************************************************)
(* Handshake_Extension_Type: the codes make_extension dispatches on.       *)
(***************************************************************************)
TLSEXT_SERVER_NAME_INDICATION == 0
TLSEXT_CERT_STATUS_REQUEST == 5
TLSEXT_SUPPORTED_GROUPS == 10
TLSEXT_EC_POINT_FORMATS == 11
TLSEXT_SIGNATURE_ALGORITHMS == 13
TLSEXT_USE_SRTP == 14
TLSEXT_ALPN == 16
TLSEXT_ENCRYPT_THEN_MAC == 22
TLSEXT_EXTENDED_MASTER_SECRET == 23
TLSEXT_SESSION_TICKET == 35
TLSEXT_SUPPORTED_VERSIONS == 43
TLSEXT_SAFE_RENEGOTIATION == 65281

KnownCodes ==
    {TLSEXT_SERVER_NAME_INDICATION, TLSEXT_CERT_STATUS_REQUEST,
     TLSEXT_SUPPORTED_GROUPS, TLSEXT_EC_POINT_FORMATS,
     TLSEXT_SIGNATURE_ALGORITHMS, TLSEXT_USE_SRTP, TLSEXT_ALPN,
     TLSEXT_ENCRYPT_THEN_MAC, TLSEXT_EXTENDED_MASTER_SECRET,
     TLSEXT_SESSION_TICKET, TLSEXT_SUPPORTED_VERSIONS,
     TLSEXT_SAFE_RENEGOTIATION}

\* ECPointFormat
UNCOMPRESSED == 0
ANSIX962_COMPRESSED_PRIME == 1

(***************************************************************************)
(* Integer widths and byte order.                                          *)
(***************************************************************************)
U8 == 256
U16 == 65536
\* size_t is 64 bits wide; TLC's integers are 32 bits wide, so a
\* wrapped size_t difference is kept modulo 2^30, which like 2^64 lies above
\* every uint16_t value it is compared with
SIZE_T == 1073741824

get_byte_0(x) == (x \div 256) % 256
get_byte_1(x) == x % 256
make_uint16(hi, lo) == hi * 256 + lo

\* the two bytes of static_cast<uint16_t>(x), high byte first
u16_bytes(x) == <<get_byte_0(x % U16), get_byte_1(x % U16)>>

RECURSIVE Flatten(_)
Flatten(ss) == IF ss = <<>> THEN <<>> ELSE Head(ss) \o Flatten(Tail(ss))

(***************************************************************************)
(* TLS_Data_Reader (botan/internal/tls_reader.h).                          *)
(***************************************************************************)
Ok(off, val) == [err |-> NoError, off |-> off, val |-> val]
Throw(e, off) == [err |-> e, off |-> off, val |-> <<>>]

\* sequencing of two steps: an exception thrown by the first ends the call
Bind(r, K(_)) == IF r.err # NoError THEN r ELSE K(r)

remaining_bytes(buf, off) == Len(buf) - off
has_remaining(buf, off) == remaining_bytes(buf, off) > 0

get_byte(buf, off) ==
    IF remaining_bytes(buf, off) < 1 THEN Throw(Decoding_Error, off)
    ELSE Ok(off + 1, buf[off + 1])

get_uint16_t(buf, off) ==
    IF remaining_bytes(buf, off) < 2 THEN Throw(Decoding_Error, off)
    ELSE Ok(off + 2, make_uint16(buf[off + 1], buf[off + 2]))

discard_next(buf, off, n) ==
    IF remaining_bytes(buf, off) < n THEN Throw(Decoding_Error, off)
    ELSE Ok(off + n, <<>>)

\* get_elem<T>(n) for sizeof(T) = tsize: n big-endian elements
get_elem(buf, off, tsize, n) ==
    IF remaining_bytes(buf, off) < n * tsize THEN Throw(Decoding_Error, off)
    ELSE Ok(off + n * tsize,
            IF tsize = 1 THEN SubSeq(buf, off + 1, off + n)
            ELSE [i \in 1..n |->
                    make_uint16(buf[off + 2 * i - 1], buf[off + 2 * i])])

get_fixed(buf, off, tsize, n) == get_elem(buf, off, tsize, n)

get_length_field(buf, off, len_bytes) ==
    IF len_bytes = 1 THEN get_byte(buf, off) ELSE get_uint16_t(buf, off)

get_num_elems(buf, off, len_bytes, tsize, min_elems, max_elems) ==
    Bind(get_length_field(buf, off, len_bytes), LAMBDA l :
        IF l.val % tsize # 0 THEN Throw(Decoding_Error, l.off)
        ELSE IF (l.val \div tsize) < min_elems \/ (l.val \div tsize) > max_elems
             THEN Throw(Decoding_Error, l.off)
        ELSE Ok(l.off, l.val \div tsize))

get_range(buf, off, tsize, len_bytes, min_elems, max_elems) ==
    Bind(get_num_elems(buf, off, len_bytes, tsize, min_elems, max_elems),
         LAMBDA n : get_elem(buf, n.off, tsize, n.val))

get_string(buf, off, len_bytes, min_bytes, max_bytes) ==
    get_range(buf, off, 1, len_bytes, min_bytes, max_bytes)

\* append_tls_length_value(buf, vals, tag_size) with byte elements
append_tls_length_value(vals, tag_size) ==
    (IF tag_size = 1 THEN <<Len(vals) % U8>> ELSE u16_bytes(Len(vals))) \o vals

(***************************************************************************)
(* An extension value.                                                     *)
(***************************************************************************)
Extension(type, data, names) == [type |-> type, data |-> data, names |-> names]

(***************************************************************************)
(* The carriers' parsing constructors.  Each takes the reader (buf, off)   *)
(* and the declared extension_size and returns Ok(off', extension) or the  *)
(* exception it throws.                                                    *)
(***************************************************************************)
NotModelled == "not modelled"

\* Unknown_Extension taking all the reader holds instead of extension_size
Unknown_Extension_whole(type, buf, off, extension_size) ==
    Ok(Len(buf), Extension(type, SubSeq(buf, off + 1, Len(buf)), <<>>))

Unknown_Extension(type, buf, off, extension_size) ==
    Bind(get_fixed(buf, off, 1, extension_size), LAMBDA m_value :
        Ok(m_value.off, Extension(type, m_value.val, <<>>)))

\* the loop of Server_Name_Indicator with a counter that stops at 0 instead
\* of wrapping around
RECURSIVE SniLoop_saturating(_, _, _, _)
SniLoop_saturating(buf, off, name_bytes, m_sni_host_name) ==
    IF name_bytes = 0
    THEN Ok(off, Extension(TLSEXT_SERVER_NAME_INDICATION, m_sni_host_name, <<>>))
    ELSE Bind(get_byte(buf, off), LAMBDA name_type :
            IF name_type.val = 0
            THEN Bind(get_string(buf, name_type.off, 2, 1, 65535), LAMBDA s :
                    SniLoop_saturating(buf, s.off,
                        IF name_bytes - 1 < 2 + Len(s.val) THEN 0
                        ELSE (name_bytes - 1) - (2 + Len(s.val)),
                        s.val))
            ELSE Bind(discard_next(buf, name_type.off, name_bytes - 1), LAMBDA d :
                    SniLoop_saturating(buf, d.off, 0, m_sni_host_name)))

\* the while(name_bytes) loop of Server_Name_Indicator; name_bytes is uint16_t
RECURSIVE SniLoop(_, _, _, _)
SniLoop(buf, off, name_bytes, m_sni_host_name) ==
    IF name_bytes = 0
    THEN Ok(off, Extension(TLSEXT_SERVER_NAME_INDICATION, m_sni_host_name, <<>>))
    ELSE Bind(get_byte(buf, off), LAMBDA name_type :
            IF name_type.val = 0
            THEN Bind(get_string(buf, name_type.off, 2, 1, 65535), LAMBDA s :
                    SniLoop(buf, s.off,
                            ((name_bytes - 1) - ((2 + Len(s.val)) % U16)) % U16,
                            s.val))
            ELSE Bind(discard_next(buf, name_type.off, name_bytes - 1), LAMBDA d :
                    SniLoop(buf, d.off, 0, m_sni_host_name)))

Server_Name_Indicator(buf, off, extension_size) ==
    IF extension_size = 0
    THEN Ok(off, Extension(TLSEXT_SERVER_NAME_INDICATION, <<>>, <<>>))
    ELSE Bind(get_uint16_t(buf, off), LAMBDA name_bytes :
            IF name_bytes.val + 2 # extension_size
            THEN Throw(Decoding_Error, name_bytes.off)
            ELSE SniLoop(buf, name_bytes.off, name_bytes.val, <<>>))

\* Renegotiation_Extension without the test of the declared size
Renegotiation_Extension_unchecked(buf, off, extension_size) ==
    Bind(get_range(buf, off, 1, 1, 0, 255), LAMBDA m_reneg_data :
        Ok(m_reneg_data.off,
           Extension(TLSEXT_SAFE_RENEGOTIATION, m_reneg_data.val, <<>>)))

Renegotiation_Extension(buf, off, extension_size) ==
    Bind(get_range(buf, off, 1, 1, 0, 255), LAMBDA m_reneg_data :
        IF Len(m_reneg_data.val) + 1 # extension_size
        THEN Throw(Decoding_Error, m_reneg_data.off)
        ELSE Ok(m_reneg_data.off,
                Extension(TLSEXT_SAFE_RENEGOTIATION, m_reneg_data.val, <<>>)))

\* the ALPN loop without its test for an empty name
RECURSIVE AlpnLoop_lenient(_, _, _, _)
AlpnLoop_lenient(buf, off, bytes_remaining, m_protocols) ==
    IF bytes_remaining = 0 THEN Ok(off, m_protocols)
    ELSE Bind(get_string(buf, off, 1, 0, 255), LAMBDA p :
            IF bytes_remaining < Len(p.val) + 1 THEN Throw(Decoding_Error, p.off)
            ELSE AlpnLoop_lenient(buf, p.off, bytes_remaining - (Len(p.val) + 1),
                                  Append(m_protocols, p.val)))

\* the while(bytes_remaining) loop of Application_Layer_Protocol_Notification
RECURSIVE AlpnLoop(_, _, _, _)
AlpnLoop(buf, off, bytes_remaining, m_protocols) ==
    IF bytes_remaining = 0 THEN Ok(off, m_protocols)
    ELSE Bind(get_string(buf, off, 1, 0, 255), LAMBDA p :
            IF bytes_remaining < Len(p.val) + 1 THEN Throw(Decoding_Error, p.off)
            ELSE IF p.val = <<>> THEN Throw(Decoding_Error, p.off)
            ELSE AlpnLoop(buf, p.off, bytes_remaining - (Len(p.val) + 1),
                          Append(m_protocols, p.val)))

\* the RFC 7301 3.1 test that closes the ALPN constructor
AlpnServerCheck(from, m_protocols) ==
    from = SERVER /\ Len(m_protocols) # 1

Application_Layer_Protocol_Notification(buf, off, extension_size, from) ==
    IF extension_size = 0
    THEN Ok(off, Extension(TLSEXT_ALPN, <<>>, <<>>))
    ELSE Bind(get_uint16_t(buf, off), LAMBDA name_bytes :
            IF name_bytes.val # (extension_size - 2) % SIZE_T
            THEN Throw(Decoding_Error, name_bytes.off)
            ELSE Bind(AlpnLoop(buf, name_bytes.off,
                               (extension_size - 2) % SIZE_T, <<>>),
                      LAMBDA l :
                        IF AlpnServerCheck(from, l.val)
                        THEN Throw(TLS_Exception_DECODE_ERROR, l.off)
                        ELSE Ok(l.off, Extension(TLSEXT_ALPN, <<>>, l.val))))

\* n successive reader.get_uint16_t() calls, each pushed back: all n values
\* when 2n bytes remain, and otherwise the throw of the first call that
\* finds fewer than 2 bytes
ReadU16s(buf, off, n, acc) ==
    IF remaining_bytes(buf, off) >= 2 * n
    THEN Ok(off + 2 * n,
            acc \o [i \in 1..n |->
                       make_uint16(buf[off + 2 * i - 1], buf[off + 2 * i])])
    ELSE Throw(Decoding_Error, off + 2 * (remaining_bytes(buf, off) \div 2))

\* Supported_Groups without its test for a list of odd length
Supported_Groups_odd_allowed(buf, off, extension_size) ==
    Bind(get_uint16_t(buf, off), LAMBDA len :
        IF len.val + 2 # extension_size THEN Throw(Decoding_Error, len.off)
        ELSE Bind(ReadU16s(buf, len.off, len.val \div 2, <<>>), LAMBDA m_groups :
                Ok(m_groups.off,
                   Extension(TLSEXT_SUPPORTED_GROUPS, m_groups.val, <<>>))))

Supported_Groups(buf, off, extension_size) ==
    Bind(get_uint16_t(buf, off), LAMBDA len :
        IF len.val + 2 # extension_size THEN Throw(Decoding_Error, len.off)
        ELSE IF len.val % 2 = 1 THEN Throw(Decoding_Error, len.off)
        ELSE Bind(ReadU16s(buf, len.off, len.val \div 2, <<>>), LAMBDA m_groups :
                Ok(m_groups.off,
                   Extension(TLSEXT_SUPPORTED_GROUPS, m_groups.val, <<>>))))

\* the for loop of Supported_Point_Formats; data is <<1>> when
\* m_prefers_compressed is set and <<0>> when it is not
RECURSIVE PointFormatsLoop(_, _, _, _)
PointFormatsLoop(buf, off, len, i) ==
    IF i = len
    THEN Ok(off, Extension(TLSEXT_EC_POINT_FORMATS, <<0>>, <<>>))
    ELSE Bind(get_byte(buf, off), LAMBDA format :
            IF format.val \in {UNCOMPRESSED, ANSIX962_COMPRESSED_PRIME}
            THEN Bind(discard_next(buf, format.off, len - i - 1), LAMBDA d :
                    Ok(d.off,
                       Extension(TLSEXT_EC_POINT_FORMATS,
                                 <<IF format.val = UNCOMPRESSED THEN 0 ELSE 1>>,
                                 <<>>)))
            ELSE PointFormatsLoop(buf, format.off, len, i + 1))

Supported_Point_Formats(buf, off, extension_size) ==
    Bind(get_byte(buf, off), LAMBDA len :
        IF len.val + 1 # extension_size THEN Throw(Decoding_Error, len.off)
        ELSE PointFormatsLoop(buf, len.off, len.val, 0))

\* Signature_Algorithms without its test for an empty list
Signature_Algorithms_allow_empty(buf, off, extension_size) ==
    Bind(get_uint16_t(buf, off), LAMBDA len :
        IF len.val + 2 # extension_size \/ len.val % 2 = 1
        THEN Throw(Decoding_Error, len.off)
        ELSE Bind(ReadU16s(buf, len.off, len.val \div 2, <<>>), LAMBDA m_schemes :
                Ok(m_schemes.off,
                   Extension(TLSEXT_SIGNATURE_ALGORITHMS, m_schemes.val, <<>>))))

Signature_Algorithms(buf, off, extension_size) ==
    Bind(get_uint16_t(buf, off), LAMBDA len :
        IF len.val + 2 # extension_size \/ len.val % 2 = 1 \/ len.val = 0
        THEN Throw(Decoding_Error, len.off)
        ELSE Bind(ReadU16s(buf, len.off, len.val \div 2, <<>>), LAMBDA m_schemes :
                Ok(m_schemes.off,
                   Extension(TLSEXT_SIGNATURE_ALGORITHMS, m_schemes.val, <<>>))))

Session_Ticket(buf, off, extension_size) ==
    Bind(get_elem(buf, off, 1, extension_size), LAMBDA m_ticket :
        Ok(m_ticket.off, Extension(TLSEXT_SESSION_TICKET, m_ticket.val, <<>>)))

\* SRTP_Protection_Profiles without the test for an empty MKI
SRTP_Protection_Profiles_any_mki(buf, off, extension_size) ==
    Bind(get_range(buf, off, 2, 2, 0, 65535), LAMBDA m_pp :
        Bind(get_range(buf, m_pp.off, 1, 1, 0, 255), LAMBDA mki :
            IF Len(m_pp.val) * 2 + Len(mki.val) + 3 # extension_size
            THEN Throw(Decoding_Error, mki.off)
            ELSE Ok(mki.off, Extension(TLSEXT_USE_SRTP, m_pp.val, <<>>))))

SRTP_Protection_Profiles(buf, off, extension_size) ==
    Bind(get_range(buf, off, 2, 2, 0, 65535), LAMBDA m_pp :
        Bind(get_range(buf, m_pp.off, 1, 1, 0, 255), LAMBDA mki :
            IF Len(m_pp.val) * 2 + Len(mki.val) + 3 # extension_size
            THEN Throw(Decoding_Error, mki.off)
            ELSE IF mki.val # <<>> THEN Throw(Decoding_Error, mki.off)
            ELSE Ok(mki.off, Extension(TLSEXT_USE_SRTP, m_pp.val, <<>>))))

\* Extended_Master_Secret skipping whatever payload is declared
Extended_Master_Secret_lenient(buf, off, extension_size) ==
    Bind(discard_next(buf, off, extension_size), LAMBDA d :
        Ok(d.off, Extension(TLSEXT_EXTENDED_MASTER_SECRET, <<>>, <<>>)))

Extended_Master_Secret(buf, off, extension_size) ==
    IF extension_size # 0 THEN Throw(Decoding_Error, off)
    ELSE Ok(off, Extension(TLSEXT_EXTENDED_MASTER_SECRET, <<>>, <<>>))

Encrypt_then_MAC(buf, off, extension_size) ==
    IF extension_size # 0 THEN Throw(Decoding_Error, off)
    ELSE Ok(off, Extension(TLSEXT_ENCRYPT_THEN_MAC, <<>>, <<>>))

\* Supported_Versions reading a server's version whatever size is declared
Supported_Versions_any_size(buf, off, extension_size, from) ==
    IF from = SERVER
    THEN Bind(get_uint16_t(buf, off), LAMBDA v :
            Ok(v.off, Extension(TLSEXT_SUPPORTED_VERSIONS, <<v.val>>, <<>>)))
    ELSE Bind(get_range(buf, off, 2, 1, 1, 127), LAMBDA versions :
            IF extension_size # 1 + 2 * Len(versions.val)
            THEN Throw(Decoding_Error, versions.off)
            ELSE Ok(versions.off,
                    Extension(TLSEXT_SUPPORTED_VERSIONS, versions.val, <<>>)))

\* a Protocol_Version is kept as its 16-bit wire value (major, minor)
Supported_Versions(buf, off, extension_size, from) ==
    IF from = SERVER
    THEN IF extension_size # 2 THEN Throw(Decoding_Error, off)
         ELSE Bind(get_uint16_t(buf, off), LAMBDA v :
                Ok(v.off, Extension(TLSEXT_SUPPORTED_VERSIONS, <<v.val>>, <<>>)))
    ELSE Bind(get_range(buf, off, 2, 1, 1, 127), LAMBDA versions :
            IF extension_size # 1 + 2 * Len(versions.val)
            THEN Throw(Decoding_Error, versions.off)
            ELSE Ok(versions.off,
                    Extension(TLSEXT_SUPPORTED_VERSIONS, versions.val, <<>>)))

(***************************************************************************)
(* The accessors of Supported_Groups.                                      *)
(***************************************************************************)
\* group_param_is_dh: the finite-field groups are the codes 256..511
group_param_is_dh(g) == g >= 256 /\ g < 512

IsDh(g) == group_param_is_dh(g) = TRUE
IsNotDh(g) == group_param_is_dh(g) = FALSE

groups(e) == e.data
ec_groups(e) == SelectSeq(e.data, IsNotDh)
dh_groups(e) == SelectSeq(e.data, IsDh)

(***************************************************************************)
(* make_extension: the registry.  The constructor of the status_request    *)
(* carrier (code 5) is not among the sources; no block offered below       *)
(* carries that code.                                                      *)
(***************************************************************************)
make_extension(buf, off, code, size, from) ==
    CASE code = TLSEXT_SERVER_NAME_INDICATION ->
            Server_Name_Indicator(buf, off, size)
      [] code = TLSEXT_SUPPORTED_GROUPS -> Supported_Groups(buf, off, size)
      [] code = TLSEXT_CERT_STATUS_REQUEST -> Throw(NotModelled, off)
      [] code = TLSEXT_EC_POINT_FORMATS -> Supported_Point_Formats(buf, off, size)
      [] code = TLSEXT_SAFE_RENEGOTIATION -> Renegotiation_Extension(buf, off, size)
      [] code = TLSEXT_SIGNATURE_ALGORITHMS -> Signature_Algorithms(buf, off, size)
      [] code = TLSEXT_USE_SRTP -> SRTP_Protection_Profiles(buf, off, size)
      [] code = TLSEXT_ALPN ->
            Application_Layer_Protocol_Notification(buf, off, size, from)
      [] code = TLSEXT_EXTENDED_MASTER_SECRET ->
            Extended_Master_Secret(buf, off, size)
      [] code = TLSEXT_ENCRYPT_THEN_MAC -> Encrypt_then_MAC(buf, off, size)
      [] code = TLSEXT_SESSION_TICKET -> Session_Ticket(buf, off, size)
      [] code = TLSEXT_SUPPORTED_VERSIONS ->
            Supported_Versions(buf, off, size, from)
      [] OTHER -> Unknown_Extension(code, buf, off, size)

(***************************************************************************)
(* The carriers' serialize(whoami) and empty().  serialize returns         *)
(* [err, val]: the exception thrown, or the payload bytes.                 *)
(***************************************************************************)
Bytes(val) == [err |-> NoError, val |-> val]
Raise(e) == [err |-> e, val |-> <<>>]

\* the big-endian bytes of a list of 16-bit values
RECURSIVE U16List(_)
U16List(xs) ==
    IF xs = <<>> THEN <<>> ELSE u16_bytes(Head(xs)) \o U16List(Tail(xs))

\* Unknown_Extension::serialize returning the stored bytes
Unknown_Extension_serialize_bytes(e, whoami) == Bytes(e.data)

Unknown_Extension_serialize(e, whoami) == Raise(Invalid_State)

\* Server_Name_Indicator::serialize writing the name without the entry's
\* type byte and length
Server_Name_Indicator_serialize_bare(e, whoami) ==
    Bytes(u16_bytes(Len(e.data)) \o e.data)

Server_Name_Indicator_serialize(e, whoami) ==
    Bytes(u16_bytes(Len(e.data) + 3) \o <<0>> \o u16_bytes(Len(e.data)) \o e.data)

Renegotiation_Extension_serialize(e, whoami) ==
    Bytes(append_tls_length_value(e.data, 1))

\* the for loop of Application_Layer_Protocol_Notification::serialize
RECURSIVE AlpnNames(_)
AlpnNames(ps) ==
    IF ps = <<>> THEN <<>>
    ELSE (IF Head(ps) # <<>> THEN append_tls_length_value(Head(ps), 1) ELSE <<>>)
         \o AlpnNames(Tail(ps))

\* buf[0], buf[1] patched with the length of what follows them
LengthPrefixed16(body) == u16_bytes(Len(body)) \o body

Application_Layer_Protocol_Notification_serialize(e, whoami) ==
    IF \E i \in 1..Len(e.names) : Len(e.names[i]) >= 256
    THEN Raise(TLS_Exception_INTERNAL_ERROR)
    ELSE Bytes(LengthPrefixed16(AlpnNames(e.names)))

\* the for loop of Supported_Groups::serialize: ids of 0 are left out
RECURSIVE GroupIds(_)
GroupIds(gs) ==
    IF gs = <<>> THEN <<>>
    ELSE (IF Head(gs) > 0 THEN u16_bytes(Head(gs)) ELSE <<>>) \o GroupIds(Tail(gs))

Supported_Groups_serialize(e, whoami) == Bytes(LengthPrefixed16(GroupIds(e.data)))

Supported_Point_Formats_serialize(e, whoami) ==
    IF e.data = <<1>>
    THEN Bytes(<<2, ANSIX962_COMPRESSED_PRIME, UNCOMPRESSED>>)
    ELSE Bytes(<<1, UNCOMPRESSED>>)

Signature_Algorithms_serialize(e, whoami) ==
    IF ~(Len(e.data) < 256) THEN Raise(Internal_Error)
    ELSE Bytes(u16_bytes(Len(e.data) * 2) \o U16List(e.data))

Session_Ticket_serialize(e, whoami) == Bytes(e.data)

SRTP_Protection_Profiles_serialize(e, whoami) ==
    Bytes(u16_bytes(Len(e.data) * 2) \o U16List(e.data) \o <<0>>)

Extended_Master_Secret_serialize(e, whoami) == Bytes(<<>>)

Encrypt_then_MAC_serialize(e, whoami) == Bytes(<<>>)

Supported_Versions_serialize(e, whoami) ==
    IF whoami = SERVER
    THEN IF Len(e.data) # 1 THEN Raise(Internal_Error)
         ELSE Bytes(u16_bytes(e.data[1]))
    ELSE IF e.data = <<>> THEN Raise(Internal_Error)
         ELSE Bytes(<<(Len(e.data) * 2) % U8>> \o U16List(e.data))

\* Extension::serialize, dispatched on the carrier
Extension_serialize(e, whoami) ==
    CASE e.type = TLSEXT_SERVER_NAME_INDICATION ->
            Server_Name_Indicator_serialize(e, whoami)
      [] e.type = TLSEXT_SUPPORTED_GROUPS -> Supported_Groups_serialize(e, whoami)
      [] e.type = TLSEXT_CERT_STATUS_REQUEST -> Raise(NotModelled)
      [] e.type = TLSEXT_EC_POINT_FORMATS ->
            Supported_Point_Formats_serialize(e, whoami)
      [] e.type = TLSEXT_SAFE_RENEGOTIATION ->
            Renegotiation_Extension_serialize(e, whoami)
      [] e.type = TLSEXT_SIGNATURE_ALGORITHMS ->
            Signature_Algorithms_serialize(e, whoami)
      [] e.type = TLSEXT_USE_SRTP -> SRTP_Protection_Profiles_serialize(e, whoami)
      [] e.type = TLSEXT_ALPN ->
            Application_Layer_Protocol_Notification_serialize(e, whoami)
      [] e.type = TLSEXT_EXTENDED_MASTER_SECRET ->
            Extended_Master_Secret_serialize(e, whoami)
      [] e.type = TLSEXT_ENCRYPT_THEN_MAC -> Encrypt_then_MAC_serialize(e, whoami)
      [] e.type = TLSEXT_SESSION_TICKET -> Session_Ticket_serialize(e, whoami)
      [] e.type = TLSEXT_SUPPORTED_VERSIONS ->
            Supported_Versions_serialize(e, whoami)
      [] OTHER -> Unknown_Extension_serialize(e, whoami)

\* Extension::empty, as each carrier overrides it (botan/tls_extensions.h)
empty(e) ==
    CASE e.type = TLSEXT_ALPN -> e.names = <<>>
      [] e.type \in {TLSEXT_SUPPORTED_GROUPS, TLSEXT_SIGNATURE_ALGORITHMS,
                     TLSEXT_USE_SRTP, TLSEXT_SUPPORTED_VERSIONS} -> e.data = <<>>
      [] OTHER -> FALSE

(***************************************************************************)
(* Extensions: the container.                                              *)
(***************************************************************************)
has(exts, type) == \E i \in 1..Len(exts) : exts[i].type = type

\* add without its has() test
add_unchecked(exts, extn) == [err |-> NoError, exts |-> Append(exts, extn)]

\* Extensions::add: [err, exts]
add(exts, extn) ==
    IF has(exts, extn.type) THEN [err |-> Invalid_Argument, exts |-> exts]
    ELSE [err |-> NoError, exts |-> Append(exts, extn)]

\* Extensions::extension_types
extension_types(exts) == {exts[i].type : i \in 1..Len(exts)}

\* a step of deserialize: an exception ends the call with the container as
\* it is at that point
BindExts(r, exts, K(_)) ==
    IF r.err # NoError THEN [err |-> r.err, off |-> r.off, exts |-> exts]
    ELSE K(r)

\* deserialize without its has(type) test
duplicated_never(exts, type) == FALSE

\* the has(type) test deserialize makes before it parses a payload
duplicated(exts, type) == has(exts, type)

\* this->add(extension) inside deserialize, and the next round of the loop
AddParsed(a, off, K(_, _)) ==
    IF a.err # NoError THEN [err |-> a.err, off |-> off, exts |-> a.exts]
    ELSE K(off, a.exts)

\* the while(reader.has_remaining()) loop of Extensions::deserialize:
\* [err, off, exts]
RECURSIVE DeserializeLoop(_, _, _, _)
DeserializeLoop(buf, off, exts, from) ==
    IF ~has_remaining(buf, off) THEN [err |-> NoError, off |-> off, exts |-> exts]
    ELSE BindExts(get_uint16_t(buf, off), exts, LAMBDA extension_code :
         BindExts(get_uint16_t(buf, extension_code.off), exts,
                  LAMBDA extension_size :
            IF duplicated(exts, extension_code.val)
            THEN [err |-> TLS_Exception_DECODE_ERROR,
                  off |-> extension_size.off, exts |-> exts]
            ELSE BindExts(make_extension(buf, extension_size.off,
                                         extension_code.val,
                                         extension_size.val, from),
                          exts, LAMBDA x :
                    AddParsed(add(exts, x.val), x.off, LAMBDA o, es :
                        DeserializeLoop(buf, o, es, from)))))

\* deserialize without its test of the total size
deserialize_unsized(buf, exts, from) ==
    IF ~has_remaining(buf, 0) THEN [err |-> NoError, off |-> 0, exts |-> exts]
    ELSE BindExts(get_uint16_t(buf, 0), exts, LAMBDA all_extn_size :
            DeserializeLoop(buf, all_extn_size.off, exts, from))

\* Extensions::deserialize on a reader over buf at offset 0: [err, off, exts]
deserialize(buf, exts, from) ==
    IF ~has_remaining(buf, 0) THEN [err |-> NoError, off |-> 0, exts |-> exts]
    ELSE BindExts(get_uint16_t(buf, 0), exts, LAMBDA all_extn_size :
            IF remaining_bytes(buf, all_extn_size.off) # all_extn_size.val
            THEN [err |-> Decoding_Error, off |-> all_extn_size.off,
                  exts |-> exts]
            ELSE DeserializeLoop(buf, all_extn_size.off, exts, from))

\* the position of the first entry of the given type, 0 when there is none
find_if(exts, type) ==
    IF has(exts, type)
    THEN CHOOSE i \in 1..Len(exts) :
            exts[i].type = type /\ \A j \in 1..(i - 1) : exts[j].type # type
    ELSE 0

\* erase of the entry at position i
erase(exts, i) == SubSeq(exts, 1, i - 1) \o SubSeq(exts, i + 1, Len(exts))

\* the body of take once find_if has returned i
take_at(exts, i) ==
    IF i = 0 THEN [result |-> <<>>, exts |-> exts]
    ELSE [result |-> <<exts[i]>>, exts |-> erase(exts, i)]

\* take that hands the entry out and leaves it in the container
take_copy(exts, type) ==
    IF find_if(exts, type) = 0 THEN [result |-> <<>>, exts |-> exts]
    ELSE [result |-> <<exts[find_if(exts, type)]>>, exts |-> exts]

\* take that fills the hole with the last entry instead of closing it up
take_swap_remove(exts, type) ==
    IF find_if(exts, type) = 0 THEN [result |-> <<>>, exts |-> exts]
    ELSE [result |-> <<exts[find_if(exts, type)]>>,
          exts |-> IF find_if(exts, type) = Len(exts)
                   THEN SubSeq(exts, 1, Len(exts) - 1)
                   ELSE SubSeq([exts EXCEPT ![find_if(exts, type)] =
                                                exts[Len(exts)]],
                               1, Len(exts) - 1)]

\* Extensions::take: [result, exts]; result is <<>> for a null pointer and
\* <<extension>> otherwise
take(exts, type) == take_at(exts, find_if(exts, type))

\* one written extension: code, size of the value, the value
Written(extn_code, extn_val) ==
    u16_bytes(extn_code) \o u16_bytes(Len(extn_val)) \o extn_val

\* the for loop of Extensions::serialize: [err, val], val the bytes that
\* follow the two length bytes
RECURSIVE SerializeLoop(_, _)
SerializeLoop(exts, whoami) ==
    IF exts = <<>> THEN Bytes(<<>>)
    ELSE IF empty(Head(exts)) THEN SerializeLoop(Tail(exts), whoami)
    ELSE Bind(Extension_serialize(Head(exts), whoami), LAMBDA extn_val :
            Bind(SerializeLoop(Tail(exts), whoami), LAMBDA rest :
                Bytes(Written(Head(exts).type, extn_val.val) \o rest.val)))

\* serialize returning the two length bytes also when nothing was written
serialize_always_block(exts, whoami) ==
    Bind(SerializeLoop(exts, whoami), LAMBDA body :
        Bytes(LengthPrefixed16(body.val)))

\* Extensions::serialize
serialize(exts, whoami) ==
    Bind(SerializeLoop(exts, whoami), LAMBDA body :
        IF Len(body.val) + 2 = 2 THEN Bytes(<<>>)
        ELSE Bytes(LengthPrefixed16(body.val)))

(***************************************************************************)
(* Wire blocks.  A record is [code, payload]; a block frames records as    *)
(* the peer's writer does: 2-byte total, then per record its code, its     *)
(* 2-byte size and its payload.                                            *)
(***************************************************************************)
Record(code, payload) == [code |-> code, payload |-> payload]

RECURSIVE WireBody(_)
WireBody(recs) ==
    IF recs = <<>> THEN <<>>
    ELSE u16_bytes(Head(recs).code) \o u16_bytes(Len(Head(recs).payload))
         \o Head(recs).payload \o WireBody(Tail(recs))

\* the block of recs whose total field declares `extra` bytes more than follow
WireBlock(recs, extra) == u16_bytes(Len(WireBody(recs)) + extra) \o WireBody(recs)

\* a reader's bytes together with the records they were framed from
Framed(recs, extra) == [buf |-> WireBlock(recs, extra), recs |-> recs]

SeqsUpTo(S, n) == UNION {[1..k -> S] : k \in 0..n}

\* records offered to a container that is in use
ContainerRecords ==
    {Record(TLSEXT_EXTENDED_MASTER_SECRET, <<>>),
     Record(TLSEXT_ALPN, <<0, 0>>),
     Record(65450, <<0>>)}

\* the blocks offered to a container that is in use: [recs, extra]; a total
\* field that is off by one is offered on the blocks of at most one record
ContainerBlocks ==
    {Framed(recs, 0) : recs \in SeqsUpTo(ContainerRecords, MaxRecords)}
    \cup {Framed(recs, 1) : recs \in SeqsUpTo(ContainerRecords, 1)}

\* extensions the application adds
AddableExtensions ==
    {Extension(TLSEXT_EXTENDED_MASTER_SECRET, <<>>, <<>>),
     Extension(TLSEXT_ALPN, <<>>, << <<97>> >>),
     Extension(65450, <<0>>, <<>>),
     Extension(TLSEXT_ENCRYPT_THEN_MAC, <<>>, <<>>)}

ContainerCodes ==
    {TLSEXT_EXTENDED_MASTER_SECRET, TLSEXT_ALPN, 65450, TLSEXT_ENCRYPT_THEN_MAC}

(***************************************************************************)
(* State.                                                                  *)
(***************************************************************************)
NoReader == [buf |-> <<>>, off |-> 0, from |-> CLIENT, recs |-> <<>>]

NoOp ==
    [op |-> "none", err |-> NoError, before |-> <<>>, extn |-> <<>>,
     code |-> 0, size |-> 0, whoami |-> CLIENT, out |-> <<>>]

Init ==
    /\ m_extensions = <<>>
    /\ reader = NoReader
    /\ last = NoOp

(***************************************************************************)
(* Operations.                                                             *)
(***************************************************************************)
AddDone(extn, r) ==
    /\ m_extensions' = r.exts
    /\ reader' = NoReader
    /\ last' = [NoOp EXCEPT !.op = "add", !.err = r.err,
                            !.before = m_extensions, !.extn = <<extn>>]

Add(extn) == AddDone(extn, add(m_extensions, extn))

TakeDone(type, r) ==
    /\ m_extensions' = r.exts
    /\ reader' = NoReader
    /\ last' = [NoOp EXCEPT !.op = "take", !.before = m_extensions,
                            !.code = type, !.extn = r.result]

Take(type) == TakeDone(type, take(m_extensions, type))

\* deserialize(reader, from, message_type) on a reader over b.buf, the
\* bytes the records b.recs were framed into; r is what the call returns
DeserializeDone(b, from, r) ==
    /\ m_extensions' = r.exts
    /\ reader' = [buf |-> b.buf, off |-> r.off, from |-> from, recs |-> b.recs]
    /\ last' = [NoOp EXCEPT !.op = "deserialize", !.err = r.err,
                            !.before = m_extensions]

Deserialize(b, from) ==
    DeserializeDone(b, from, deserialize(b.buf, m_extensions, from))

\* serialize(whoami) is const: the container stays as it is
SerializeDone(whoami, r) ==
    /\ last' = [NoOp EXCEPT !.op = "serialize", !.err = r.err,
                            !.before = m_extensions, !.whoami = whoami,
                            !.out = r.val]
    /\ UNCHANGED <<m_extensions, reader>>

Serialize(whoami) == SerializeDone(whoami, serialize(m_extensions, whoami))

Next ==
    \/ \E extn \in AddableExtensions : Add(extn)
    \/ \E type \in ContainerCodes : Take(type)
    \/ \E b \in ContainerBlocks, from \in Connection_Side : Deserialize(b, from)
    \/ \E whoami \in Connection_Side : Serialize(whoami)

Spec == Init /\ [][Next]_vars

(***************************************************************************)
(* Specification SpecWire: an Extensions object is built from a block off  *)
(* the wire (as the hello messages build theirs) and, once built, is       *)
(* serialized.                                                             *)
(***************************************************************************)
WireRecords ==
    {Record(TLSEXT_SERVER_NAME_INDICATION, p) :
        p \in {<<>>, <<0, 4, 0, 0, 1, 97>>, <<0, 2, 1, 97>>, <<0, 0>>}}
    \cup {Record(TLSEXT_SUPPORTED_GROUPS, p) :
        p \in {<<0, 2, 0, 23>>, <<0, 0>>, <<0, 2, 0, 0>>}}
    \cup {Record(TLSEXT_EC_POINT_FORMATS, p) :
        p \in {<<1, 0>>, <<2, 1, 0>>, <<2, 0, 1>>, <<1, 2>>}}
    \cup {Record(TLSEXT_SIGNATURE_ALGORITHMS, p) :
        p \in {<<0, 2, 4, 1>>, <<0, 4, 4, 1, 8, 4>>}}
    \cup {Record(TLSEXT_USE_SRTP, p) : p \in {<<0, 2, 0, 1, 0>>, <<0, 0, 0>>}}
    \cup {Record(TLSEXT_ALPN, p) :
        p \in {<<>>, <<0, 2, 1, 97>>, <<0, 4, 1, 97, 1, 98>>, <<0, 0>>}}
    \cup {Record(TLSEXT_ENCRYPT_THEN_MAC, p) : p \in {<<>>, <<0>>}}
    \cup {Record(TLSEXT_EXTENDED_MASTER_SECRET, p) : p \in {<<>>, <<0>>}}
    \cup {Record(TLSEXT_SESSION_TICKET, p) : p \in {<<>>, <<7>>}}
    \cup {Record(TLSEXT_SUPPORTED_VERSIONS, p) :
        p \in {<<3, 3>>, <<2, 3, 3>>, <<4, 3, 3, 3, 4>>}}
    \cup {Record(TLSEXT_SAFE_RENEGOTIATION, p) : p \in {<<0>>, <<1, 9>>}}
    \cup {Record(65450, p) : p \in {<<>>, <<222, 173>>}}

\* the blocks a peer sends: honest framings of up to MaxWire records, a
\* total field that is one too large or one too small around a single
\* record, and a block cut after its first byte
WireBlocks ==
    {Framed(recs, 0) : recs \in SeqsUpTo(WireRecords, MaxWire)}
    \cup {Framed(recs, 1) : recs \in SeqsUpTo(WireRecords, 1)}
    \cup {Framed(<<r>>, -1) : r \in WireRecords}
    \cup {[buf |-> <<0>>, recs |-> <<>>]}

\* the constructor of a message that carries extensions: a new Extensions
\* object deserializes the block
ParseBlock(b, from) == Deserialize(b, from)

\* serialize(whoami) of the object the constructor has built
SerializeParsed(whoami) ==
    /\ last.op = "deserialize"
    /\ last.err = NoError
    /\ Serialize(whoami)

NextWire ==
    \/ /\ last.op = "none"
       /\ \E b \in WireBlocks, from \in Connection_Side : ParseBlock(b, from)
    \/ \E whoami \in Connection_Side : SerializeParsed(whoami)

SpecWire == Init /\ [][NextWire]_vars

(***************************************************************************)
(* Specification SpecParse: make_extension is applied to a reader over a   *)
(* payload, with a declared size and an origin side.                       *)
(***************************************************************************)
UnknownCodes == {1, 65450, 65535}

\* [code, buf]: the code handed to make_extension and what the reader holds
ParseInputs ==
    {[code |-> TLSEXT_ALPN, buf |-> buf] :
        buf \in SeqsUpTo({0, 1, 2, 4}, MaxRaw)}
    \cup {[code |-> c, buf |-> buf] :
        c \in UnknownCodes, buf \in SeqsUpTo({0, 222}, MaxRaw)}

MakeExtensionDone(in, size, from, r) ==
    /\ reader' = [buf |-> in.buf, off |-> r.off, from |-> from, recs |-> <<>>]
    /\ last' = [NoOp EXCEPT !.op = "make_extension", !.err = r.err,
                            !.code = in.code, !.size = size,
                            !.extn = IF r.err = NoError THEN <<r.val>> ELSE <<>>]
    /\ UNCHANGED m_extensions

\* make_extension on a reader set over in.buf
MakeExtension(in, size, from) ==
    MakeExtensionDone(in, size, from,
                      make_extension(in.buf, 0, in.code, size, from))

\* one reader per run: a payload is parsed once
NextParse ==
    /\ last.op = "none"
    /\ \E in \in ParseInputs, from \in Connection_Side :
          \E size \in 0..(Len(in.buf) + 1) : MakeExtension(in, size, from)

SpecParse == Init /\ [][NextParse]_vars

(***************************************************************************)
(* Specification SpecCarrier: make_extension is applied to payloads of the *)
(* carriers of server_name, supported_groups, ec_point_formats,            *)
(* signature_algorithms, supported_versions, renegotiation_info and        *)
(* use_srtp.                                                               *)
(***************************************************************************)
\* the bytes the payloads of a code are made of
Alphabet(code) ==
    CASE code = TLSEXT_SERVER_NAME_INDICATION -> {0, 1, 4}
      [] code = TLSEXT_SIGNATURE_ALGORITHMS -> {0, 2, 4}
      [] code = TLSEXT_SUPPORTED_VERSIONS -> {2, 3, 4}
      [] OTHER -> {0, 1, 2}

CarrierCodes ==
    {TLSEXT_SERVER_NAME_INDICATION, TLSEXT_SUPPORTED_GROUPS,
     TLSEXT_EC_POINT_FORMATS, TLSEXT_SIGNATURE_ALGORITHMS,
     TLSEXT_SUPPORTED_VERSIONS, TLSEXT_SAFE_RENEGOTIATION, TLSEXT_USE_SRTP}

\* a signature_algorithms payload of 256 schemes
ManySchemes ==
    [i \in 1..514 |-> IF i = 1 THEN 2 ELSE IF i = 2 THEN 0
                      ELSE IF i % 2 = 1 THEN 4 ELSE 1]

\* longer payloads: a server_name list of the host names "a" and "b",
\* supported_groups lists of two and of three groups, the 256 schemes, and
\* supported_versions lists of length 0, and a use_srtp list of two profiles
CarrierSamples ==
    {[code |-> TLSEXT_SERVER_NAME_INDICATION,
      buf |-> <<0, 8, 0, 0, 1, 97, 0, 0, 1, 98>>],
     [code |-> TLSEXT_SUPPORTED_GROUPS, buf |-> <<0, 4, 1, 0, 0, 23>>],
     [code |-> TLSEXT_SUPPORTED_GROUPS,
      buf |-> <<0, 6, 0, 23, 1, 0, 0, 24>>],
     [code |-> TLSEXT_SIGNATURE_ALGORITHMS, buf |-> ManySchemes],
     [code |-> TLSEXT_SUPPORTED_VERSIONS, buf |-> <<0>>],
     [code |-> TLSEXT_SUPPORTED_VERSIONS, buf |-> <<0, 3, 3>>],
     [code |-> TLSEXT_USE_SRTP, buf |-> <<0, 4, 0, 1, 0, 2, 0>>]}

CarrierInputs ==
    UNION {{[code |-> c, buf |-> buf] : buf \in SeqsUpTo(Alphabet(c), MaxRaw)} :
              c \in CarrierCodes}
    \cup CarrierSamples

SerializeCarrierDone(whoami, r) ==
    /\ last' = [last EXCEPT !.op = "extension_serialize", !.err = r.err,
                            !.whoami = whoami, !.out = r.val]
    /\ UNCHANGED <<m_extensions, reader>>

\* serialize(whoami) of the extension make_extension has built
SerializeCarrier(whoami) ==
    /\ last.op = "make_extension"
    /\ last.err = NoError
    /\ SerializeCarrierDone(whoami, Extension_serialize(last.extn[1], whoami))

\* groups(), ec_groups() and dh_groups() of the parsed supported_groups
GroupsAccessors ==
    /\ last.op = "make_extension"
    /\ last.err = NoError
    /\ last.code = TLSEXT_SUPPORTED_GROUPS
    /\ last' = [last EXCEPT !.op = "groups",
                            !.out = <<groups(last.extn[1]),
                                      ec_groups(last.extn[1]),
                                      dh_groups(last.extn[1])>>]
    /\ UNCHANGED <<m_extensions, reader>>

\* one reader per run: a payload is parsed once
NextCarrier ==
    \/ /\ last.op = "none"
       /\ \E in \in CarrierInputs, from \in Connection_Side :
             \E size \in 0..(Len(in.buf) + 1) : MakeExtension(in, size, from)
    \/ \E whoami \in Connection_Side : SerializeCarrier(whoami)
    \/ GroupsAccessors

SpecCarrier == Init /\ [][NextCarrier]_vars

(***************************************************************************)
(* Specification SpecSni: a new Extensions object deserializes a block     *)
(* whose first record is a server_name extension; the name list has the    *)
(* declared length, its entries need not fit into it.                      *)
(***************************************************************************)
MaxSni == 5
MaxFollow == 2

\* server_name payloads: no payload, and a name list of up to MaxSni bytes
\* behind its length
SniPayloads ==
    {<<>>} \cup {u16_bytes(Len(list)) \o list :
                    list \in SeqsUpTo(Alphabet(TLSEXT_SERVER_NAME_INDICATION),
                                      MaxSni)}

\* the records that follow the server_name record
Followers ==
    {Record(65450, <<>>),
     Record(TLSEXT_EXTENDED_MASTER_SECRET, <<>>),
     Record(TLSEXT_SESSION_TICKET, <<7>>)}

\* the name list <<0, 0, 1>> declares 3 bytes and holds a host name entry
\* of 4: its name is the first byte of what follows the record
OverrunByOne == Record(TLSEXT_SERVER_NAME_INDICATION, <<0, 3, 0, 0, 1>>)

\* the largest block the 2-byte total allows (65535 bytes of records): the
\* overrun is followed by an entry of another name type, which discards
\* as many bytes as the wrapped counter holds
LargestBlock ==
    Framed(<<OverrunByOne,
             Record(65450, [i \in 1..65522 |-> IF i = 1 THEN 97
                                               ELSE IF i = 2 THEN 1 ELSE 0])>>,
           0)

\* a reader of more bytes than a total field can declare: behind the overrun
\* stand the 65535 bytes the wrapped counter asks for
WrapBlock ==
    [buf |-> <<255, 255>> \o WireBody(<<OverrunByOne>>) \o <<97, 1>>
                \o [i \in 1..65534 |-> 0],
     recs |-> <<OverrunByOne>>]

SniBlocks ==
    {Framed(<<Record(TLSEXT_SERVER_NAME_INDICATION, p)>> \o post, 0) :
        p \in SniPayloads, post \in SeqsUpTo(Followers, MaxFollow)}
    \cup {LargestBlock, WrapBlock}

NextSni ==
    /\ last.op = "none"
    /\ \E b \in SniBlocks, from \in Connection_Side : ParseBlock(b, from)

SpecSni == Init /\ [][NextSni]_vars

(***************************************************************************)
(* Specification SpecLarge: the application adds extensions, among them    *)
(* session tickets as long as 16-bit length fields go and one byte longer, *)
(* takes them out and serializes the container.                            *)
(***************************************************************************)
\* a session_ticket extension holding a ticket of n bytes
TicketOf(n) == Extension(TLSEXT_SESSION_TICKET, [i \in 1..n |-> 7], <<>>)

\* a ticket of 65535 bytes is the longest a peer can deliver
LargeExtensions ==
    {TicketOf(1), TicketOf(U16 - 1), TicketOf(U16),
     Extension(TLSEXT_EXTENDED_MASTER_SECRET, <<>>, <<>>),
     Extension(TLSEXT_ALPN, <<>>, << <<97>> >>)}

LargeCodes ==
    {TLSEXT_SESSION_TICKET, TLSEXT_EXTENDED_MASTER_SECRET, TLSEXT_ALPN}

NextLarge ==
    \/ \E extn \in LargeExtensions : Add(extn)
    \/ \E type \in LargeCodes : Take(type)
    \/ \E whoami \in Connection_Side : Serialize(whoami)

SpecLarge == Init /\ [][NextLarge]_vars

(***************************************************************************)
(* Properties of the container operations (specification Spec).            *)
(***************************************************************************)

\* C1: in every reachable state, whatever add, take and deserialize calls
\* succeeded or failed before, no two entries of the container have the same
\* extension code, so extension_types() has as many elements as the
\* container has entries.
C1_Uniqueness ==
    /\ \A i, j \in 1..Len(m_extensions) :
          m_extensions[i].type = m_extensions[j].type => i = j
    /\ Cardinality(extension_types(m_extensions)) = Len(m_extensions)

\* a failed operation has left a container of three entries behind
C1_Witness ==
    /\ last.op \in {"add", "deserialize"}
    /\ last.err # NoError
    /\ Len(m_extensions) = 3

\* C3 (as claimed): when deserialize fails with a decode error, the container
\* holds what it held before the call.
C3_NoStateRetained ==
    (last.op = "deserialize" /\ last.err \in DecodeErrors)
        => m_extensions = last.before

\* C5: add of an extension whose code is present fails with Invalid_Argument
\* and leaves the container as it was; add of an extension whose code is
\* absent succeeds and appends it as the last entry.
C5_Add ==
    last.op = "add" =>
        LET extn == last.extn[1] IN
        IF \E i \in 1..Len(last.before) : last.before[i].type = extn.type
        THEN last.err = Invalid_Argument /\ m_extensions = last.before
        ELSE /\ last.err = NoError
             /\ Len(m_extensions) = Len(last.before) + 1
             /\ m_extensions[Len(m_extensions)] = extn
             /\ SubSeq(m_extensions, 1, Len(last.before)) = last.before

\* an add was refused on a container of two entries whose second entry has
\* the code of the extension offered
C5_Witness ==
    /\ last.op = "add"
    /\ last.err = Invalid_Argument
    /\ Len(last.before) = 2
    /\ last.before[2].type = last.extn[1].type
    /\ last.before[2] # last.extn[1]

\* the 16-bit big-endian number at positions i, i+1 of p
be16(p, i) == p[i] * 256 + p[i + 1]

\* the codes of the entries, in container order
Types(exts) == [i \in 1..Len(exts) |-> exts[i].type]

\* the position of the entry of code t
Pos(exts, t) == CHOOSE i \in 1..Len(exts) : exts[i].type = t

\* entries found in old and in new stand in new in the order they have in
\* old, and every entry new to new stands behind them
OrderKept(old, new) ==
    \/ new = old
    \/ /\ \A a, b \in extension_types(old) \cap extension_types(new) :
             Pos(old, a) < Pos(old, b) => Pos(new, a) < Pos(new, b)
       /\ \A a \in extension_types(old) \cap extension_types(new) :
             \A n \in extension_types(new) \ extension_types(old) :
                 Pos(new, a) < Pos(new, n)

\* the codes of the records of a serialized block, in the order written
RECURSIVE BodyCodes(_)
BodyCodes(body) ==
    IF Len(body) < 4 THEN <<>>
    ELSE <<be16(body, 1)>>
         \o BodyCodes(SubSeq(body, 5 + be16(body, 3), Len(body)))

OutCodes(out) == IF out = <<>> THEN <<>> ELSE BodyCodes(SubSeq(out, 3, Len(out)))

NotEmpty(e) == ~empty(e)

\* C11: every add, take and deserialize leaves the entries that stay in the
\* order they had and puts new entries behind them, deserialized ones in
\* wire order; and serialize writes the entries it writes in container
\* order.
C11_InsertionOrder ==
    /\ [][/\ OrderKept(m_extensions, m_extensions')
          /\ last'.op = "deserialize" =>
                Types(SubSeq(m_extensions', Len(m_extensions) + 1,
                             Len(m_extensions')))
                  = [i \in 1..(Len(m_extensions') - Len(m_extensions)) |->
                        reader'.recs[i].code]]_vars
    /\ []((last.op = "serialize" /\ last.err = NoError) =>
            OutCodes(last.out) = Types(SelectSeq(m_extensions, NotEmpty)))

\* three entries were written in the order they were inserted in, which is
\* not the order of their codes
C11_Witness ==
    /\ last.op = "serialize"
    /\ last.err = NoError
    /\ Types(m_extensions) = <<TLSEXT_ENCRYPT_THEN_MAC, TLSEXT_ALPN,
                               TLSEXT_EXTENDED_MASTER_SECRET>>
    /\ OutCodes(last.out) = Types(m_extensions)

\* C14: take(code) on a container holding the code returns that entry and
\* removes exactly it: the code is absent afterwards, the other entries are
\* as they were and in the order they were, and an add of that code right
\* afterwards succeeds; take(code) on a container not holding the code
\* returns nothing and leaves the container as it was.
C14_Take ==
    /\ [](last.op = "take" =>
            IF \E i \in 1..Len(last.before) : last.before[i].type = last.code
            THEN /\ last.extn = <<last.before[Pos(last.before, last.code)]>>
                 /\ m_extensions =
                       SubSeq(last.before, 1, Pos(last.before, last.code) - 1)
                       \o SubSeq(last.before, Pos(last.before, last.code) + 1,
                                 Len(last.before))
                 /\ \A i \in 1..Len(m_extensions) :
                       m_extensions[i].type # last.code
            ELSE last.extn = <<>> /\ m_extensions = last.before)
    /\ [][(last.op = "take" /\ last.extn # <<>> /\ last'.op = "add"
             /\ last'.extn[1].type = last.code) =>
            last'.err = NoError]_vars

\* the middle one of three entries was taken
C14_Witness ==
    /\ last.op = "take"
    /\ Len(last.before) = 3
    /\ last.code = last.before[2].type
    /\ last.extn = <<last.before[2]>>
    /\ m_extensions = <<last.before[1], last.before[3]>>

(***************************************************************************)
(* Properties of parsing a block and serializing what was parsed           *)
(* (specification SpecWire).                                               *)
(***************************************************************************)
\* the reader's bytes are the honest framing of the records
HonestFraming == reader.buf = WireBlock(reader.recs, 0)

HasRepeat(recs) ==
    \E i, j \in 1..Len(recs) : i < j /\ recs[i].code = recs[j].code

\* the position of the first record whose code an earlier record has
FirstRepeat(recs) ==
    CHOOSE j \in 1..Len(recs) :
        /\ \E i \in 1..(j - 1) : recs[i].code = recs[j].code
        /\ \A k \in 1..(j - 1) :
              \A i \in 1..(k - 1) : recs[i].code # recs[k].code

\* the records ahead of the first repeated one are accepted on their own
AheadAccepted(recs, from) ==
    deserialize(WireBlock(SubSeq(recs, 1, FirstRepeat(recs) - 1), 0),
                <<>>, from).err = NoError

\* C2: deserialize of a block in which a code occurs twice fails with a
\* decode error, whatever the two payloads are; when the records ahead of the
\* second occurrence are well formed, the failure is the TLS exception with
\* alert DECODE_ERROR, raised when the reader stands right behind the code
\* and size of the second occurrence: its payload has not been read.
C2_DuplicateRejected ==
    (last.op = "deserialize" /\ HonestFraming /\ HasRepeat(reader.recs)) =>
        /\ last.err \in DecodeErrors
        /\ AheadAccepted(reader.recs, reader.from) =>
              /\ last.err = TLS_Exception_DECODE_ERROR
              /\ reader.off =
                    2 + Len(WireBody(SubSeq(reader.recs, 1,
                                            FirstRepeat(reader.recs) - 1))) + 4

\* extended_master_secret twice, the second time with a payload its carrier
\* rejects: refused at offset 10 of 11
C2_Witness ==
    /\ last.op = "deserialize"
    /\ reader.recs = <<Record(TLSEXT_EXTENDED_MASTER_SECRET, <<>>),
                       Record(TLSEXT_EXTENDED_MASTER_SECRET, <<0>>)>>
    /\ last.err = TLS_Exception_DECODE_ERROR
    /\ reader.off = 10
    /\ Len(reader.buf) = 11

KnownOnly(recs) == \A i \in 1..Len(recs) : recs[i].code \in KnownCodes

\* a record whose carrier holds nothing after parsing: ALPN without names,
\* supported_groups without groups, use_srtp without profiles
ElidedForm(rec) ==
    \/ rec.code = TLSEXT_ALPN /\ rec.payload \in {<<>>, <<0, 0>>}
    \/ rec.code = TLSEXT_SUPPORTED_GROUPS /\ rec.payload = <<0, 0>>
    \/ rec.code = TLSEXT_USE_SRTP /\ rec.payload = <<0, 0, 0>>

\* a record with no payload, or none after parsing, that is not a marker
EmptyNonMarker(rec) ==
    /\ rec.code \notin {TLSEXT_ENCRYPT_THEN_MAC, TLSEXT_EXTENDED_MASTER_SECRET}
    /\ rec.payload = <<>> \/ ElidedForm(rec)

Canonical(rec) ==
    CASE rec.code = TLSEXT_SERVER_NAME_INDICATION ->
            /\ Len(rec.payload) >= 6
            /\ be16(rec.payload, 1) = Len(rec.payload) - 2
            /\ rec.payload[3] = 0
            /\ be16(rec.payload, 4) = Len(rec.payload) - 5
      [] rec.code = TLSEXT_SUPPORTED_GROUPS ->
            /\ Len(rec.payload) >= 4
            /\ \A k \in 1..((Len(rec.payload) - 2) \div 2) :
                  be16(rec.payload, 2 * k + 1) # 0
      [] rec.code = TLSEXT_EC_POINT_FORMATS ->
            rec.payload \in {<<1, 0>>, <<2, 1, 0>>}
      [] rec.code = TLSEXT_SIGNATURE_ALGORITHMS -> Len(rec.payload) < 514
      [] rec.code = TLSEXT_USE_SRTP -> Len(rec.payload) >= 5
      [] rec.code = TLSEXT_ALPN -> Len(rec.payload) >= 4
      [] OTHER -> TRUE

C6_TotalSize ==
    last.op = "deserialize" =>
        /\ (Len(reader.buf) > 0
              /\ (Len(reader.buf) < 2
                    \/ be16(reader.buf, 1) # Len(reader.buf) - 2)) =>
              last.err = Decoding_Error /\ m_extensions = <<>>
        /\ last.err = NoError => reader.off = Len(reader.buf)

\* a well-formed record under a total that is one too small was refused
\* right behind the total
C6_Witness ==
    /\ last.op = "deserialize"
    /\ last.err = Decoding_Error
    /\ reader.recs = <<Record(TLSEXT_SESSION_TICKET, <<7>>)>>
    /\ be16(reader.buf, 1) = Len(reader.buf) - 3
    /\ reader.off = 2

\* one record per entry that is not empty: its code and what its carrier
\* writes for this side
RecordsOf(sel, whoami) ==
    [i \in 1..Len(sel) |->
        Record(sel[i].type, Extension_serialize(sel[i], whoami).val)]

\* C12: a serialize that succeeds has skipped every empty extension; when
\* that leaves nothing it returns the empty byte sequence, not 00 00, and
\* otherwise the 2-byte length followed by one (code, payload length,
\* payload) record per extension that is not empty.
C12_SerializeElision ==
    (last.op = "serialize" /\ last.err = NoError) =>
        /\ last.out # <<0, 0>>
        /\ last.out =
              IF SelectSeq(m_extensions, NotEmpty) = <<>> THEN <<>>
              ELSE WireBlock(RecordsOf(SelectSeq(m_extensions, NotEmpty),
                                       last.whoami), 0)

\* an ALPN without names ahead of a marker: only the marker was written
C12_Witness ==
    /\ last.op = "serialize"
    /\ Len(m_extensions) = 2
    /\ m_extensions[1] = Extension(TLSEXT_ALPN, <<>>, <<>>)
    /\ m_extensions[2].type = TLSEXT_EXTENDED_MASTER_SECRET
    /\ last.out = <<0, 4, 0, 23, 0, 0>>

\* the records of a serialized block, in the order written
RECURSIVE BodyRecords(_)
BodyRecords(body) ==
    IF Len(body) < 4 THEN <<>>
    ELSE <<Record(be16(body, 1), SubSeq(body, 5, 4 + be16(body, 3)))>>
         \o BodyRecords(SubSeq(body, 5 + be16(body, 3), Len(body)))

OutRecords(out) ==
    IF out = <<>> THEN <<>> ELSE BodyRecords(SubSeq(out, 3, Len(out)))

Markers == {TLSEXT_EXTENDED_MASTER_SECRET, TLSEXT_ENCRYPT_THEN_MAC}

\* a marker record that declares a payload
BadMarker(rec) == rec.code \in Markers /\ rec.payload # <<>>

FirstBadMarker(recs) ==
    CHOOSE j \in 1..Len(recs) :
        BadMarker(recs[j]) /\ \A i \in 1..(j - 1) : ~BadMarker(recs[i])

\* C13: a serialize that succeeds has written every extended_master_secret
\* and encrypt_then_mac entry of the container as its code followed by a
\* payload length of 0 and no payload; and a block with a marker record of
\* declared size other than 0 fails with a decode error, at that record at
\* the latest.
C13_Markers ==
    /\ (last.op = "serialize" /\ last.err = NoError) =>
          \A i \in 1..Len(m_extensions) :
              m_extensions[i].type \in Markers =>
                  \E k \in 1..Len(OutRecords(last.out)) :
                      OutRecords(last.out)[k]
                          = Record(m_extensions[i].type, <<>>)
    /\ (last.op = "deserialize" /\ HonestFraming
          /\ \E j \in 1..Len(reader.recs) : BadMarker(reader.recs[j])) =>
          /\ last.err \in DecodeErrors
          /\ Len(m_extensions) < FirstBadMarker(reader.recs)
          /\ Len(reader.recs) = 1 => last.err = Decoding_Error

\* both markers, held by the container, were written with length 0
C13_Witness ==
    /\ last.op = "serialize"
    /\ last.whoami = SERVER
    /\ Types(m_extensions) = <<TLSEXT_ENCRYPT_THEN_MAC,
                               TLSEXT_EXTENDED_MASTER_SECRET>>
    /\ last.out = <<0, 8, 0, 22, 0, 0, 0, 23, 0, 0>>

HoldsUnknown(exts) == \E i \in 1..Len(exts) : exts[i].type \notin KnownCodes

\* C8 (as claimed): serialize of a container that holds an unknown extension
\* fails with Invalid_State and returns no bytes, for either side.
C8_InvalidState ==
    (last.op = "serialize" /\ HoldsUnknown(m_extensions)) =>
        last.err = Invalid_State /\ last.out = <<>>

\* an extension this side cannot write: supported_versions of more than one
\* version written by a server, signature_algorithms of 256 schemes or
\* more, ALPN with a name of 256 bytes or more
Unwritable(e, whoami) ==
    \/ /\ e.type = TLSEXT_SUPPORTED_VERSIONS
       /\ whoami = SERVER
       /\ Len(e.data) > 1
    \/ e.type = TLSEXT_SIGNATURE_ALGORITHMS /\ Len(e.data) >= 256
    \/ e.type = TLSEXT_ALPN /\ \E k \in 1..Len(e.names) : Len(e.names[k]) >= 256

\* such an extension stands ahead of the first unknown one
UnwritableAhead(exts, whoami) ==
    \E i \in 1..Len(exts) :
        /\ \A j \in 1..i : exts[j].type \in KnownCodes
        /\ Unwritable(exts[i], whoami)

\* C8 (amended): serialize of a container that holds an unknown extension
\* fails and returns no bytes, for either side; the failure is Invalid_State
\* unless an extension ahead of the unknown one cannot be written by this
\* side, and is then the internal error that extension raises.
C8_UnknownNotSerialized ==
    (last.op = "serialize" /\ HoldsUnknown(m_extensions)) =>
        /\ last.out = <<>>
        /\ IF UnwritableAhead(m_extensions, last.whoami)
           THEN last.err \in {Internal_Error, TLS_Exception_INTERNAL_ERROR}
           ELSE last.err = Invalid_State

\* a server failed to write a marker followed by an unknown extension
C8_Witness ==
    /\ last.op = "serialize"
    /\ last.whoami = SERVER
    /\ last.err = Invalid_State
    /\ Len(m_extensions) = 2
    /\ m_extensions[1].type = TLSEXT_EXTENDED_MASTER_SECRET
    /\ m_extensions[2] = Extension(65450, <<222, 173>>, <<>>)

(***************************************************************************)
(* Properties of make_extension (specification SpecParse).                 *)
(***************************************************************************)

\* C7: for a code outside the known set make_extension yields an unknown
\* extension of that code whose value is the first declared-size bytes the
\* reader holds, in order, and the reader has advanced by that size; a
\* declared size beyond what the reader holds is a decode error.
C7_UnknownPreserved ==
    (last.op = "make_extension" /\ last.code \notin KnownCodes) =>
        IF last.size <= Len(reader.buf)
        THEN /\ last.err = NoError
             /\ last.extn = <<Extension(last.code,
                                        SubSeq(reader.buf, 1, last.size), <<>>)>>
             /\ reader.off = last.size
        ELSE last.err = Decoding_Error

\* two of three bytes were declared and kept
C7_Witness ==
    /\ last.op = "make_extension"
    /\ last.code = 65450
    /\ reader.buf = <<222, 0, 222>>
    /\ last.size = 2
    /\ last.extn = <<Extension(65450, <<222, 0>>, <<>>)>>

\* C9 (as claimed): an ALPN extension parsed with origin SERVER and accepted
\* carries exactly one protocol name.
C9_ServerArity ==
    (last.op = "make_extension" /\ last.code = TLSEXT_ALPN
        /\ reader.from = SERVER /\ last.err = NoError) =>
        Len(last.extn[1].names) = 1

\* a name list is a run of names, each a length byte of at least 1 and that
\* many bytes, that ends where the list ends
RECURSIVE WellFormedNames(_)
WellFormedNames(list) ==
    \/ list = <<>>
    \/ /\ list[1] >= 1
       /\ list[1] <= Len(list) - 1
       /\ WellFormedNames(SubSeq(list, list[1] + 2, Len(list)))

\* C10: parsing an ALPN payload (one that carries a name list, i.e. of
\* declared size other than 0), from either side, fails with a decode error
\* if the 2-byte list length is not the declared size minus 2, or a name of
\* the list has length 0, or a name's length runs past the list.
C10_AlpnMalformed ==
    (last.op = "make_extension" /\ last.code = TLSEXT_ALPN /\ last.size # 0
        /\ \/ Len(reader.buf) < 2
           \/ be16(reader.buf, 1) # last.size - 2
           \/ last.size > Len(reader.buf)
           \/ ~WellFormedNames(SubSeq(reader.buf, 3, last.size))) =>
        last.err = Decoding_Error

\* a list of two names whose second is empty was refused, from a client
C10_Witness ==
    /\ last.op = "make_extension"
    /\ last.code = TLSEXT_ALPN
    /\ reader.from = CLIENT
    /\ reader.buf = <<0, 4, 1, 4, 0, 0>>
    /\ last.size = 6
    /\ last.err = Decoding_Error

(***************************************************************************)
(* Properties of the carriers' constructors and serializers                *)
(* (specification SpecCarrier).                                            *)
(***************************************************************************)
\* the payload make_extension was given: the declared-size bytes
Payload == SubSeq(reader.buf, 1, last.size)

Parsed(code) == last.op = "make_extension" /\ last.code = code

\* the number of host_name entries (type 0) of a server_name list whose
\* entries are a type byte, a 2-byte length and that many bytes
RECURSIVE DnsCount(_)
DnsCount(list) ==
    IF Len(list) < 3 THEN 0
    ELSE (IF list[1] = 0 THEN 1 ELSE 0)
         + DnsCount(SubSeq(list, 4 + be16(list, 2), Len(list)))

\* C15 (as claimed): a server_name payload of declared size 0 is accepted
\* with an empty host name, and one of another declared size is accepted
\* only when its list carries exactly one host_name entry.
C15_ExactlyOneHostName ==
    Parsed(TLSEXT_SERVER_NAME_INDICATION) =>
        /\ last.size = 0 =>
              /\ last.err = NoError
              /\ last.extn = <<Extension(TLSEXT_SERVER_NAME_INDICATION,
                                         <<>>, <<>>)>>
        /\ (last.size # 0 /\ last.err = NoError) =>
              DnsCount(SubSeq(Payload, 3, Len(Payload))) = 1

\* the formats of an ec_point_formats payload: the bytes behind its length
Formats == SubSeq(Payload, 2, Len(Payload))

\* the first format of the list that is uncompressed or
\* ansiX962_compressed_prime, 0 when there is none
FirstRecognized(list) ==
    IF \E i \in 1..Len(list) :
          list[i] \in {UNCOMPRESSED, ANSIX962_COMPRESSED_PRIME}
    THEN CHOOSE i \in 1..Len(list) :
            /\ list[i] \in {UNCOMPRESSED, ANSIX962_COMPRESSED_PRIME}
            /\ \A j \in 1..(i - 1) :
                  list[j] \notin {UNCOMPRESSED, ANSIX962_COMPRESSED_PRIME}
    ELSE 0

\* C16 (as claimed): an ec_point_formats payload that is accepted lists the
\* uncompressed format, and the preference for compressed points is set
\* exactly when the first format of the list that is uncompressed or
\* ansiX962_compressed_prime is the latter.
C16_PointFormats ==
    (Parsed(TLSEXT_EC_POINT_FORMATS) /\ last.err = NoError) =>
        /\ \E i \in 1..Len(Formats) : Formats[i] = UNCOMPRESSED
        /\ last.extn[1].data =
              <<IF Formats[FirstRecognized(Formats)] = ANSIX962_COMPRESSED_PRIME
                THEN 1 ELSE 0>>

Reserialized(code) == last.op = "extension_serialize" /\ last.code = code

\* the 16-bit codes of a list payload whose first two bytes are its length
WireCodes(payload) ==
    [i \in 1..((Len(payload) - 2) \div 2) |-> be16(payload, 2 * i + 1)]

\* the reader holds the declared-size bytes, and they are a 2-byte length
\* that is the declared size minus 2
ListFits ==
    /\ last.size >= 2
    /\ last.size <= Len(reader.buf)
    /\ be16(reader.buf, 1) = last.size - 2

\* ... and that length is even and not 0
SchemesWellFormed == ListFits /\ last.size # 2 /\ last.size % 2 = 0

Pick(full, S) ==
    LET F[k \in 0..Len(full)] ==
            IF k = 0 THEN <<>>
            ELSE IF k \in S THEN Append(F[k - 1], full[k]) ELSE F[k - 1]
    IN F[Len(full)]

\* C18: a supported_groups payload is refused with a decode error unless
\* its 2-byte list length is even and the declared size minus 2, and is
\* accepted otherwise; groups() is then the 16-bit codes in wire order, and
\* ec_groups() and dh_groups() are what groups() holds at two sets of
\* positions, in order, that are disjoint and together are all positions.
C18_SupportedGroups ==
    /\ Parsed(TLSEXT_SUPPORTED_GROUPS) =>
          IF ListFits /\ last.size % 2 = 0
          THEN /\ last.err = NoError
               /\ last.extn[1].data = WireCodes(Payload)
          ELSE last.err = Decoding_Error
    /\ last.op = "groups" =>
          /\ last.out[1] = WireCodes(Payload)
          /\ \E E \in SUBSET (1..Len(last.out[1])) :
                /\ last.out[2] = Pick(last.out[1], E)
                /\ last.out[3] = Pick(last.out[1], (1..Len(last.out[1])) \ E)

\* a finite-field group between two curves was sorted out
C18_Witness ==
    /\ last.op = "groups"
    /\ reader.buf = <<0, 6, 0, 23, 1, 0, 0, 24>>
    /\ last.out = << <<23, 256, 24>>, <<23, 24>>, <<256>> >>

\* the reader holds the declared-size bytes, and they are a 1-byte length
\* that is the declared size minus 1
ShortListFits ==
    /\ last.size >= 1
    /\ last.size <= Len(reader.buf)
    /\ reader.buf[1] = last.size - 1

\* C19: a supported_versions payload from a server is accepted exactly when
\* the declared size is 2 (and 2 bytes are there), and holds the version in
\* those bytes; one from a client is accepted exactly when it is a 1-byte
\* length L, even and in 2..254, followed by L bytes, with declared size
\* 1 + L, and holds the L/2 versions in wire order; anything else is a
\* decode error, and serialize for the side the payload came from returns
\* the payload.
C19_SupportedVersions ==
    /\ Parsed(TLSEXT_SUPPORTED_VERSIONS) =>
          IF reader.from = SERVER
          THEN IF last.size = 2 /\ Len(reader.buf) >= 2
               THEN /\ last.err = NoError
                    /\ last.extn[1].data = <<be16(reader.buf, 1)>>
               ELSE last.err = Decoding_Error
          ELSE IF /\ ShortListFits
                  /\ reader.buf[1] % 2 = 0
                  /\ reader.buf[1] \in 2..254
               THEN /\ last.err = NoError
                    /\ last.extn[1].data =
                          [i \in 1..(reader.buf[1] \div 2) |->
                              be16(reader.buf, 2 * i)]
               ELSE last.err = Decoding_Error
    /\ (Reserialized(TLSEXT_SUPPORTED_VERSIONS)
          /\ last.whoami = reader.from) =>
          last.err = NoError /\ last.out = Payload

\* a client's list of two versions was parsed and written back by a client
C19_Witness ==
    /\ Reserialized(TLSEXT_SUPPORTED_VERSIONS)
    /\ reader.from = CLIENT
    /\ last.whoami = CLIENT
    /\ reader.buf = <<4, 3, 3, 3, 4>>
    /\ last.extn[1].data = <<771, 772>>
    /\ last.out = reader.buf

\* C20: a renegotiation_info payload is accepted exactly when its 1-byte
\* length prefix is the declared size minus 1 (and the bytes are there); the
\* verify-data kept is the bytes after the prefix, serialize returns the
\* payload, and every other payload is a decode error.
C20_RenegotiationInfo ==
    /\ Parsed(TLSEXT_SAFE_RENEGOTIATION) =>
          IF ShortListFits
          THEN /\ last.err = NoError
               /\ last.extn[1].data = SubSeq(reader.buf, 2, last.size)
          ELSE last.err = Decoding_Error
    /\ Reserialized(TLSEXT_SAFE_RENEGOTIATION) =>
          last.err = NoError /\ last.out = Payload

\* verify-data of two bytes was parsed and written back
C20_Witness ==
    /\ Reserialized(TLSEXT_SAFE_RENEGOTIATION)
    /\ reader.buf = <<2, 1, 2>>
    /\ last.size = 3
    /\ last.extn[1].data = <<1, 2>>
    /\ last.out = <<2, 1, 2>>

\* the length of the MKI field of a use_srtp payload whose profile list and
\* MKI length byte are inside the reader, and -1 otherwise
MkiLength ==
    IF Len(reader.buf) >= 2 /\ be16(reader.buf, 1) + 3 <= Len(reader.buf)
    THEN reader.buf[be16(reader.buf, 1) + 3]
    ELSE -1

\* the reader holds a 2-byte even profile list length, the profiles and an
\* empty MKI, and they are the declared-size bytes
SrtpFits ==
    /\ MkiLength = 0
    /\ be16(reader.buf, 1) % 2 = 0
    /\ last.size = be16(reader.buf, 1) + 3

\* C21: parsing a use_srtp payload is a decode error whenever its MKI field
\* is not empty or the declared size is not 2 * profiles + MKI length + 3
\* (the only payloads accepted are an even profile list length, the
\* profiles and a zero MKI length byte, of the declared size); an accepted
\* payload keeps the profiles in wire order, and serialize writes them back
\* followed by a zero-length MKI, which is the payload.
C21_UseSrtp ==
    /\ Parsed(TLSEXT_USE_SRTP) =>
          /\ MkiLength > 0 => last.err = Decoding_Error
          /\ (MkiLength >= 0 /\ be16(reader.buf, 1) % 2 = 0
                /\ last.size # be16(reader.buf, 1) + MkiLength + 3) =>
                last.err = Decoding_Error
          /\ IF SrtpFits
             THEN /\ last.err = NoError
                  /\ last.extn[1].data =
                        [i \in 1..(be16(reader.buf, 1) \div 2) |->
                            be16(reader.buf, 2 * i + 1)]
             ELSE last.err = Decoding_Error
    /\ Reserialized(TLSEXT_USE_SRTP) =>
          /\ last.err = NoError
          /\ last.out = Payload
          /\ last.out[Len(last.out)] = 0

\* a list of two profiles was parsed and written back
C21_Witness ==
    /\ Reserialized(TLSEXT_USE_SRTP)
    /\ reader.buf = <<0, 4, 0, 1, 0, 2, 0>>
    /\ last.size = 7
    /\ last.extn[1].data = <<1, 2>>
    /\ last.out = reader.buf

\* a payload of the declared size with an MKI of one byte was refused
C21_MkiRefused ==
    /\ Parsed(TLSEXT_USE_SRTP)
    /\ reader.buf = <<0, 2, 0, 1, 1, 2>>
    /\ last.size = 6
    /\ last.err = Decoding_Error

(***************************************************************************)
(* Properties of server_name inside a block (specification SpecSni).       *)
(***************************************************************************)

\* the declared name list of a server_name payload: what stands behind its
\* 2-byte length
NameList(payload) == SubSeq(payload, 3, Len(payload))

\* some host name entry of the list (type 0, a 2-byte length, the name) is
\* longer than the bytes of the list that are left when it starts; an entry
\* of another type takes whatever is left
RECURSIVE EntryOverruns(_)
EntryOverruns(list) ==
    IF list = <<>> \/ list[1] # 0 THEN FALSE
    ELSE IF Len(list) < 3 THEN TRUE
    ELSE IF 3 + be16(list, 2) > Len(list) THEN TRUE
    ELSE EntryOverruns(SubSeq(list, 4 + be16(list, 2), Len(list)))

\* the first record of the block the reader was over
FirstRecord == reader.recs[1]

\* the offset behind the server_name parser run where deserialize runs it:
\* behind the total field and the record's code and size
SniEnd ==
    Server_Name_Indicator(reader.buf, 6, Len(FirstRecord.payload)).off

\* C23: a server_name record with a host name entry that is longer than
\* what is left of the declared name list makes deserialize fail with a
\* decode error, whatever follows the record; when deserialize succeeds the
\* server_name parser has read exactly the declared size, so the container
\* holds one entry per record of the block, in order.
C23_SniOverrun ==
    (last.op = "deserialize" /\ reader.recs # <<>>
        /\ FirstRecord.code = TLSEXT_SERVER_NAME_INDICATION
        /\ Len(FirstRecord.payload) >= 2) =>
        /\ EntryOverruns(NameList(FirstRecord.payload)) =>
              last.err = Decoding_Error
        /\ last.err = NoError =>
              /\ SniEnd = 6 + Len(FirstRecord.payload)
              /\ Types(m_extensions) =
                    [i \in 1..Len(reader.recs) |-> reader.recs[i].code]

\* a host name entry whose length covers the whole record that follows was
\* refused
C23_Witness ==
    /\ last.op = "deserialize"
    /\ reader.recs = <<Record(TLSEXT_SERVER_NAME_INDICATION, <<0, 3, 0, 0, 4>>),
                       Record(65450, <<>>)>>
    /\ EntryOverruns(NameList(FirstRecord.payload))
    /\ last.err = Decoding_Error
    /\ m_extensions = <<>>

\* the overrun in the largest block was refused inside the record that
\* follows, and the one in the longer reader right behind the total field
C23_LargestRefused ==
    /\ last.op = "deserialize"
    /\ Len(reader.buf) = 65537
    /\ last.err = Decoding_Error
    /\ reader.off > 6 + Len(FirstRecord.payload)

C23_WrapRefused ==
    /\ last.op = "deserialize"
    /\ Len(reader.buf) = 65547
    /\ last.err = Decoding_Error
    /\ reader.off = 2

(***************************************************************************)
(* Properties of serialize on long contents (specification SpecLarge).     *)
(***************************************************************************)

\* the payload length field of each record written, the records standing
\* one behind the other from position pos of out, is the number of payload
\* bytes written for it
RECURSIVE PayloadLensKept(_, _, _)
PayloadLensKept(out, pos, recs) ==
    IF recs = <<>> THEN TRUE
    ELSE /\ be16(out, pos + 2) = Len(Head(recs).payload)
         /\ PayloadLensKept(out, pos + 4 + Len(Head(recs).payload), Tail(recs))

\* C24: whenever serialize returns a result that is not empty, its 2-byte
\* outer length is the number of bytes that follow it and the payload
\* length of every record is the number of payload bytes written for that
\* extension, also when a payload or the block is longer than 65535 bytes.
C24_NoTruncation ==
    (last.op = "serialize" /\ last.err = NoError /\ last.out # <<>>) =>
        /\ be16(last.out, 1) = Len(last.out) - 2
        /\ PayloadLensKept(last.out, 3,
                           RecordsOf(SelectSeq(m_extensions, NotEmpty),
                                     last.whoami))

\* the same for contents whose block stays within 65535 bytes
C24_ShortBlocksFramed ==
    (last.op = "serialize" /\ last.err = NoError /\ last.out # <<>>
        /\ Len(last.out) - 2 < U16) => C24_NoTruncation

\* a ticket of 65535 bytes ahead of a marker was written as 65545 bytes
\* whose outer length reads 7
C24_Truncated ==
    /\ last.op = "serialize"
    /\ last.err = NoError
    /\ Types(m_extensions) =
          <<TLSEXT_SESSION_TICKET, TLSEXT_EXTENDED_MASTER_SECRET>>
    /\ Len(last.out) = 65545
    /\ be16(last.out, 1) = 7

====
